---- MODULE Spec2Model ----
(***************************************************************************)
(* Global Survey USVs map (src/Global_USVs_Linkedin_v0.py).                *)
(*                                                                         *)
(* The script is a Streamlit page: it is evaluated top to bottom once per  *)
(* render pass.  A pass is started by the first page load, by one user     *)
(* event (a new selector value, a button press, a manual refresh) or by    *)
(* st.experimental_rerun().  st.session_state, the st.cache_data memo and  *)
(* the selectbox value held by the browser survive from pass to pass.      *)
(*                                                                         *)
(* Numbers.  Latitude and Longitude are kept in millionths of a degree,    *)
(* jitter_amount in thousandths of a degree and sine/cosine in thousandths *)
(* so that offset = jitter_amount * sin is an exact integer product.  The  *)
(* zoom levels 1.2 and 3.5 are kept in tenths (12 and 35).  mean() is the  *)
(* sum divided by the count, rounded down to a millionth of a degree.      *)
(***************************************************************************)
EXTENDS Integers, Sequences, FiniteSets, TLC

VARIABLES
    csv,        \* the rows of Global_USVs_Linkedin.csv
    memo,       \* the st.cache_data memo of load_data: <<>> or <<df>>
    parses,     \* how many times the body of load_data has run
    df_raw,     \* df_raw as the last pass left it
    df,         \* df as the last pass left it
    session,    \* st.session_state
    widget,     \* the selectbox as the browser holds it
    view,       \* what the last pass computed and displayed
    event,      \* what started the last pass
    prior,      \* the button and the selector value of the pass before the last
    call,       \* a call of apply_jitter with an argument of its own
    pc          \* "start", "idle", "rerun" or "error"

vars == <<csv, memo, parses, df_raw, df, session, widget, view, event, prior,
          call, pc>>

\* Largest number of rows of the input file that is explored.
MaxRows == 3

\* The marker pandas keeps for a missing cell (what dropna looks for).
NaN == -1

\* A missing Country cell (groupby leaves such rows out of every group).
NoCountry == "<NA>"

\* The country names of the explored files, in sorted() order.
Countries == <<"France", "UK">>

\* The selector's sentinel option.
ShowAll == "Show All"

\* default argument of apply_jitter, 0.8 degrees, in thousandths of a degree
jitter_amount == 800

\* map_zoom values 1.2 and 3.5, in tenths
ZoomWide == 12
ZoomClose == 35

\* icon_url
icon_url == "https://raw.githubusercontent.com/joanapaiva82/Global_UVSs/main/usv.png"

-----------------------------------------------------------------------------
\* Sequence helpers.

RECURSIVE Concat(_)
Concat(parts) ==
    IF Len(parts) = 0 THEN <<>> ELSE Head(parts) \o Concat(Tail(parts))

RECURSIVE Sum(_)
Sum(s) == IF Len(s) = 0 THEN 0 ELSE Head(s) + Sum(Tail(s))

\* Series.mean(): sum over count, to the resolution of the model; NaN for an
\* empty series.
Mean(s) == IF Len(s) = 0 THEN NaN ELSE Sum(s) \div Len(s)

Column(d, col) == [i \in DOMAIN d |-> d[i][col]]

-----------------------------------------------------------------------------
\* The input file: every row carries Name, Country, Latitude, Longitude.
\* Name is the row's position in the file, which gives each record an identity.

\* The rows the explored files are made of; coordinates are in millionths of a
\* degree.  Two resolved French positions lie 1.6 degrees apart on one parallel,
\* and there are rows with no Latitude, no Longitude or no Country.
RowChoices ==
    {[Country |-> "France", Latitude |-> 50000000, Longitude |-> 0],
     [Country |-> "France", Latitude |-> 50000000, Longitude |-> 1600000],
     [Country |-> "France", Latitude |-> NaN, Longitude |-> 0],
     [Country |-> "France", Latitude |-> 50000000, Longitude |-> NaN],
     [Country |-> "UK", Latitude |-> 54000000, Longitude |-> -2000000],
     [Country |-> "UK", Latitude |-> NaN, Longitude |-> -2000000],
     [Country |-> NoCountry, Latitude |-> 50000000, Longitude |-> 0]}

Files ==
    UNION {
        {[i \in 1..n |->
            [Name |-> i, Country |-> f[i].Country,
             Latitude |-> f[i].Latitude, Longitude |-> f[i].Longitude]] :
         f \in [1..n -> RowChoices]} : n \in 0..MaxRows}

-----------------------------------------------------------------------------
\* load_data (lines 49-53).

\* df.dropna(subset=["Latitude", "Longitude"])
dropna(d) ==
    SelectSeq(d, LAMBDA r : r.Latitude # NaN /\ r.Longitude # NaN)

\* load_data as it would be without @st.cache_data.
load_data_uncached(m, file) ==
    [df |-> dropna(file), memo |-> <<dropna(file)>>, parsed |-> TRUE]

\* @st.cache_data: the body runs only when the memo is empty; memo is <<>> or
\* <<df>>.  parsed tells whether pd.read_csv ran in this call.
load_data(m, file) ==
    IF Len(m) = 1
    THEN [df |-> m[1], memo |-> m, parsed |-> FALSE]
    ELSE [df |-> dropna(file), memo |-> <<dropna(file)>>, parsed |-> TRUE]

-----------------------------------------------------------------------------
\* apply_jitter (lines 57-71).

\* np.sin / np.cos of np.linspace(0, 2*pi, count, endpoint=False)[i], in
\* thousandths, for count = 1..6.
SinTable ==
    << <<0>>,
       <<0, 0>>,
       <<0, 866, -866>>,
       <<0, 1000, 0, -1000>>,
       <<0, 951, 588, -588, -951>>,
       <<0, 866, 866, 0, -866, -866>> >>

CosTable ==
    << <<1000>>,
       <<1000, -1000>>,
       <<1000, -500, -500>>,
       <<1000, 0, -1000, 0>>,
       <<1000, 309, -809, -809, 309>>,
       <<1000, 500, -500, -1000, -500, 500>> >>

\* lat_offsets[i] and lon_offsets[i] (i counted from 0) for a group of count.
lat_offsets(amount, count, i) == amount * SinTable[count][i + 1]
lon_offsets(amount, count, i) == amount * CosTable[count][i + 1]

\* The keys df.groupby("Country") iterates over: sorted, missing keys left out.
GroupKeys(d) ==
    SelectSeq(Countries, LAMBDA c : \E i \in DOMAIN d : d[i].Country = c)

\* One group of the groupby: the rows of the country, in file order.
Group(d, country) == SelectSeq(d, LAMBDA r : r.Country = country)

\* The loop body as it would be without the count == 1 branch.
JitterGroup_every_count(group, amount) ==
    LET count == Len(group) IN
    [i \in 1..count |->
        [group[i] EXCEPT
            !.Latitude = @ + lat_offsets(amount, count, i - 1),
            !.Longitude = @ + lon_offsets(amount, count, i - 1)]]

\* The loop body, lines 60-70: what is appended to jittered for one group.
JitterGroup(group, amount) ==
    LET count == Len(group) IN
    IF count = 1
    THEN group
    ELSE [i \in 1..count |->
            [group[i] EXCEPT
                !.Latitude = @ + lat_offsets(amount, count, i - 1),
                !.Longitude = @ + lon_offsets(amount, count, i - 1)]]

\* apply_jitter as it would be without group.copy(), the offsets being added
\* to the rows of the caller's frame.
apply_jitter_in_place(d, amount) ==
    LET keys == GroupKeys(d)
        jittered == [k \in 1..Len(keys) |-> JitterGroup(Group(d, keys[k]), amount)]
        out == Concat(jittered)
    IN  IF Len(jittered) = 0
        THEN [status |-> "ValueError", out |-> <<>>, arg |-> d]
        ELSE [status |-> "ok", out |-> out,
              arg |-> [i \in DOMAIN d |->
                         IF \E j \in DOMAIN out : out[j].Name = d[i].Name
                         THEN out[CHOOSE j \in DOMAIN out : out[j].Name = d[i].Name]
                         ELSE d[i]]]

\* apply_jitter as it would be if it worked on the frame the previous pass had
\* placed instead of on its argument, so that offsets pile up pass after pass.
apply_jitter_on_previous(d, amount) ==
    LET src == IF Len(df) > 0 THEN df ELSE d
        keys == GroupKeys(src)
        jittered == [k \in 1..Len(keys) |-> JitterGroup(Group(src, keys[k]), amount)]
    IN  IF Len(jittered) = 0
        THEN [status |-> "ValueError", out |-> <<>>, arg |-> d]
        ELSE [status |-> "ok", out |-> Concat(jittered), arg |-> d]

\* apply_jitter(d, amount).  out is the returned frame, arg is the caller's
\* frame after the call (group.copy() keeps it as it was), and status is
\* "ValueError" when pd.concat is handed an empty list.
apply_jitter(d, amount) ==
    LET keys == GroupKeys(d)
        jittered == [k \in 1..Len(keys) |-> JitterGroup(Group(d, keys[k]), amount)]
    IN  IF Len(jittered) = 0
        THEN [status |-> "ValueError", out |-> <<>>, arg |-> d]
        ELSE [status |-> "ok", out |-> Concat(jittered), arg |-> d]

\* Lines 77-82: the icon column is added to the jittered frame.
AddIcon(d) ==
    [i \in DOMAIN d |->
        [Name |-> d[i].Name, Country |-> d[i].Country,
         Latitude |-> d[i].Latitude, Longitude |-> d[i].Longitude,
         icon_data |-> icon_url]]

-----------------------------------------------------------------------------
\* Session State Init (lines 87-92).  keys is the set of keys present in
\* st.session_state; the value of an absent key is never read.

EmptySession ==
    [keys |-> {}, selected_country |-> "", zoom_override |-> FALSE,
     rerun_trigger |-> FALSE]

\* The session init as it would be without lines 87-88.
SessionInit_no_country(ss) ==
    [keys |-> ss.keys \cup {"zoom_override", "rerun_trigger"},
     selected_country |-> ss.selected_country,
     zoom_override |->
        IF "zoom_override" \in ss.keys THEN ss.zoom_override ELSE FALSE,
     rerun_trigger |->
        IF "rerun_trigger" \in ss.keys THEN ss.rerun_trigger ELSE FALSE]

SessionInit(ss) ==
    [keys |-> ss.keys \cup {"selected_country", "zoom_override", "rerun_trigger"},
     selected_country |->
        IF "selected_country" \in ss.keys THEN ss.selected_country ELSE ShowAll,
     zoom_override |->
        IF "zoom_override" \in ss.keys THEN ss.zoom_override ELSE FALSE,
     rerun_trigger |->
        IF "rerun_trigger" \in ss.keys THEN ss.rerun_trigger ELSE FALSE]

-----------------------------------------------------------------------------
\* Country dropdown (lines 100-106).

\* sorted(df["Country"].unique())
SortedCountries(d) == GroupKeys(d)

\* The options list of the selectbox.
Options(d) == <<ShowAll>> \o SortedCountries(d)

\* The index argument (lines 103-104), counted from 0; -1 stands for the
\* ValueError list.index raises for a value that is not in the list.
SelectIndex(d, selected) ==
    IF selected = ShowAll THEN 0
    ELSE IF \E i \in DOMAIN SortedCountries(d) : SortedCountries(d)[i] = selected
         THEN CHOOSE i \in DOMAIN SortedCountries(d) : SortedCountries(d)[i] = selected
         ELSE -1

\* No selectbox has been rendered yet.
NoWidget == [ident |-> -1, value |-> ""]

\* st.selectbox without a key: the widget's identity is made of its arguments,
\* so while the index argument is the one the browser's widget was built with
\* the call returns the browser's value, and with another index it is a new
\* widget that shows options[index].
selectbox(w, options, index) ==
    IF w.ident = index
    THEN [value |-> w.value, widget |-> w]
    ELSE [value |-> options[index + 1],
          widget |-> [ident |-> index, value |-> options[index + 1]]]

-----------------------------------------------------------------------------
\* Buttons (lines 109-117).  clicked is "zoom", "clear" or "none": st.button
\* returns True only in the pass its click started.

\* The buttons as they would be if "Clear Filter" did not ask for a rerun.
Buttons_clear_no_rerun(ss, clicked) ==
    IF clicked = "zoom"
    THEN [ss EXCEPT !.zoom_override = TRUE]
    ELSE IF clicked = "clear"
         THEN [ss EXCEPT !.selected_country = ShowAll,
                         !.zoom_override = TRUE]
         ELSE ss

\* The buttons as they would be if "Zoom to All" did not raise the flag.
Buttons_zoom_unset(ss, clicked) ==
    IF clicked = "clear"
    THEN [ss EXCEPT !.selected_country = ShowAll,
                    !.zoom_override = TRUE,
                    !.rerun_trigger = TRUE]
    ELSE ss

Buttons(ss, clicked) ==
    IF clicked = "zoom"
    THEN [ss EXCEPT !.zoom_override = TRUE]
    ELSE IF clicked = "clear"
         THEN [ss EXCEPT !.selected_country = ShowAll,
                         !.zoom_override = TRUE,
                         !.rerun_trigger = TRUE]
         ELSE ss

-----------------------------------------------------------------------------
\* Filter and Map View (lines 122-129).

\* df_table as it would be if the country filter were left out.
df_table_unfiltered(d, ss) == d

df_table(d, ss) ==
    IF ss.selected_country = ShowAll
    THEN d
    ELSE SelectSeq(d, LAMBDA r : r.Country = ss.selected_country)

\* should_zoom_out as it would be if only the flag were looked at.
should_zoom_out_flag_only(ss) == ss.zoom_override

should_zoom_out(ss) == ss.zoom_override \/ ss.selected_country = ShowAll

map_lat(d, ss) == Mean(Column(df_table(d, ss), "Latitude"))
map_lon(d, ss) == Mean(Column(df_table(d, ss), "Longitude"))
map_zoom(ss) == IF should_zoom_out(ss) THEN ZoomWide ELSE ZoomClose

-----------------------------------------------------------------------------
\* Safe Rerun and Reset Zoom Flag (lines 180-185).  st.experimental_rerun()
\* raises, so the lines after it do not run in a pass that issues a rerun.

\* The end of the script as it would be without lines 184-185.
SafeRerun_no_reset(ss) ==
    IF ss.rerun_trigger
    THEN [ss |-> [ss EXCEPT !.rerun_trigger = FALSE], rerun |-> TRUE]
    ELSE [ss |-> ss, rerun |-> FALSE]

\* The end of the script as it would be without line 181.
SafeRerun_keep_trigger(ss) ==
    IF ss.rerun_trigger
    THEN [ss |-> ss, rerun |-> TRUE]
    ELSE IF ss.zoom_override
         THEN [ss |-> [ss EXCEPT !.zoom_override = FALSE], rerun |-> FALSE]
         ELSE [ss |-> ss, rerun |-> FALSE]

SafeRerun(ss) ==
    IF ss.rerun_trigger
    THEN [ss |-> [ss EXCEPT !.rerun_trigger = FALSE], rerun |-> TRUE]
    ELSE IF ss.zoom_override
         THEN [ss |-> [ss EXCEPT !.zoom_override = FALSE], rerun |-> FALSE]
         ELSE [ss |-> ss, rerun |-> FALSE]

-----------------------------------------------------------------------------
\* One render pass: the script from line 55 to line 185.

\* What a pass that raised leaves on the page.
ErrorView(status) ==
    [status |-> status, selector |-> "", clicked |-> "none",
     override_at_start |-> FALSE, selected_country |-> "",
     df_table |-> <<>>, map_lat |-> NaN, map_lon |-> NaN, map_zoom |-> 0,
     rerun |-> FALSE]

\* No pass came before the last one in this session.
NoPrior == [clicked |-> "none", selector |-> ""]

\* apply_jitter has not been called with an argument of its own.
NoCall == [amount |-> jitter_amount, status |-> "none", out |-> <<>>]

\* w is the selectbox as the browser holds it when the pass starts, clicked the
\* button whose click started the pass.
Pass(w, clicked) ==
    LET ld == load_data(memo, csv)
        aj == apply_jitter(ld.df, jitter_amount)
        d  == AddIcon(aj.out)
        s0 == SessionInit(session)
        index == SelectIndex(d, s0.selected_country)
        sb == selectbox(w, Options(d), index)
        s1 == [s0 EXCEPT !.selected_country = sb.value]
        s2 == Buttons(s1, clicked)
        tl == SafeRerun(s2)
    IN  /\ csv' = csv
        /\ call' = call
        /\ prior' = [clicked |-> view.clicked, selector |-> view.selector]
        /\ memo' = ld.memo
        /\ parses' = IF ld.parsed THEN parses + 1 ELSE parses
        /\ df_raw' = aj.arg
        /\ IF aj.status # "ok"
           THEN /\ df' = <<>>
                /\ session' = session
                /\ widget' = NoWidget
                /\ view' = ErrorView(aj.status)
                /\ pc' = "error"
           ELSE IF index = -1
           THEN /\ df' = d
                /\ session' = s0
                /\ widget' = NoWidget
                /\ view' = ErrorView("ValueError: not in list")
                /\ pc' = "error"
           ELSE /\ df' = d
                /\ session' = tl.ss
                /\ widget' = sb.widget
                /\ view' =
                     [status |-> "ok", selector |-> sb.value, clicked |-> clicked,
                      override_at_start |-> s0.zoom_override,
                      selected_country |-> s2.selected_country,
                      df_table |-> df_table(d, s2),
                      map_lat |-> map_lat(d, s2), map_lon |-> map_lon(d, s2),
                      map_zoom |-> map_zoom(s2),
                      rerun |-> tl.rerun]
                /\ pc' = IF tl.rerun THEN "rerun" ELSE "idle"

-----------------------------------------------------------------------------
\* What starts a pass.

\* The first load of the page in a session.
FirstRun ==
    /\ pc = "start"
    /\ Pass(widget, "none")
    /\ event' = "first"

\* The viewer picks another option of the selectbox.
SelectCountry ==
    /\ pc = "idle"
    /\ \E v \in {Options(df)[i] : i \in DOMAIN Options(df)} :
          /\ v # widget.value
          /\ Pass([widget EXCEPT !.value = v], "none")
    /\ event' = "select"

\* The viewer presses "Zoom to All".
PressZoomToAll ==
    /\ pc = "idle"
    /\ Pass(widget, "zoom")
    /\ event' = "zoom"

\* The viewer presses "Clear Filter".
PressClearFilter ==
    /\ pc = "idle"
    /\ Pass(widget, "clear")
    /\ event' = "clear"

\* The viewer asks for a rerun of the page without touching a widget.
Refresh ==
    /\ pc \in {"idle", "error"}
    /\ Pass(widget, "none")
    /\ event' = "refresh"

\* The pass st.experimental_rerun() asked for.
Rerun ==
    /\ pc = "rerun"
    /\ Pass(widget, "none")
    /\ event' = "rerun"

\* The viewer reloads the page: a new session, the st.cache_data memo is kept.
NewSession ==
    /\ pc \in {"idle", "error"}
    /\ session' = EmptySession
    /\ widget' = NoWidget
    /\ view' = ErrorView("none")
    /\ event' = "none"
    /\ prior' = NoPrior
    /\ pc' = "start"
    /\ UNCHANGED <<csv, memo, parses, df_raw, df, call>>

Init ==
    /\ csv \in Files
    /\ memo = <<>>
    /\ parses = 0
    /\ df_raw = <<>>
    /\ df = <<>>
    /\ session = EmptySession
    /\ widget = NoWidget
    /\ view = ErrorView("none")
    /\ event = "none"
    /\ prior = NoPrior
    /\ call = NoCall
    /\ pc = "start"

Next ==
    \/ FirstRun
    \/ SelectCountry
    \/ PressZoomToAll
    \/ PressClearFilter
    \/ Refresh
    \/ Rerun
    \/ NewSession

Spec == Init /\ [][Next]_vars

-----------------------------------------------------------------------------
\* apply_jitter called on its own (lines 57-71) with a jitter_amount argument
\* other than the default: the default radius, none, and the default negated.

Amounts == {jitter_amount, 0, -jitter_amount}

JitterInit ==
    /\ csv \in Files
    /\ call \in {[amount |-> a, status |-> "none", out |-> <<>>] : a \in Amounts}
    /\ memo = <<>>
    /\ parses = 0
    /\ df_raw = <<>>
    /\ df = <<>>
    /\ session = EmptySession
    /\ widget = NoWidget
    /\ view = ErrorView("none")
    /\ event = "none"
    /\ prior = NoPrior
    /\ pc = "start"

\* apply_jitter(df, call.amount) on the frame the file loads as.
CallApplyJitter ==
    /\ call.status = "none"
    /\ call' = [amount |-> call.amount,
                status |-> apply_jitter(dropna(csv), call.amount).status,
                out |-> apply_jitter(dropna(csv), call.amount).out]
    /\ UNCHANGED <<csv, memo, parses, df_raw, df, session, widget, view, event,
                   prior, pc>>

JitterNext == CallApplyJitter

JitterSpec == JitterInit /\ [][JitterNext]_vars

-----------------------------------------------------------------------------
\* Properties of the viewport state machine.

\* A pass ran to its end (or to the rerun it asked for) and drew the map.
Rendered == view.status = "ok"

\* The rows of frame d the selector value sel stands for.
Matching(d, sel) ==
    IF sel = ShowAll THEN d ELSE SelectSeq(d, LAMBDA r : r.Country = sel)

\* C1: the pass in which "Clear Filter" is pressed computes its viewport with
\* selected_country = Show All and zoom 1.2, and no pass computes a viewport
\* with selected_country = Show All and zoom 3.5.
C1_ClearYieldsAllWide ==
    /\ (Rendered /\ view.clicked = "clear") =>
           (view.selected_country = ShowAll /\ view.map_zoom = ZoomWide)
    /\ Rendered => ~(view.selected_country = ShowAll /\ view.map_zoom = ZoomClose)

\* "Clear Filter" was pressed while a country was selected.
C1_Witness ==
    /\ Rendered
    /\ view.clicked = "clear"
    /\ view.selector # ShowAll
    /\ view.map_zoom = ZoomWide

\* C2 as claimed: zoom_override is False at the start of every pass that
\* follows the pass in which a button set it, the forced rerun included.
C2_FlagConsumedOnce ==
    pc \in {"idle", "rerun"} => session.zoom_override = FALSE

\* C3 as claimed: the pass in which "Zoom to All" is pressed has Show All as
\* its active filter and centres the map on the mean of all placed points,
\* with zoom 1.2.
C3_ZoomToAllShowsAll ==
    (Rendered /\ view.clicked = "zoom") =>
        /\ view.selected_country = ShowAll
        /\ view.df_table = df
        /\ view.map_lat = Mean(Column(df, "Latitude"))
        /\ view.map_lon = Mean(Column(df, "Longitude"))
        /\ view.map_zoom = ZoomWide

\* C3 as amended: the pass in which "Zoom to All" is pressed keeps the
\* selector's value as its active filter, shows and centres on the placed
\* records that match it (all of them only under Show All), with zoom 1.2.
C3_ZoomToAllKeepsFilter ==
    (Rendered /\ view.clicked = "zoom") =>
        /\ view.selected_country = view.selector
        /\ session.selected_country = view.selector
        /\ view.df_table = Matching(df, view.selector)
        /\ view.map_lat = Mean(Column(Matching(df, view.selector), "Latitude"))
        /\ view.map_lon = Mean(Column(Matching(df, view.selector), "Longitude"))
        /\ view.map_zoom = ZoomWide

\* "Zoom to All" was pressed while a country was selected that does not hold
\* every placed record.
C3_Witness ==
    /\ Rendered
    /\ view.clicked = "zoom"
    /\ view.selector # ShowAll
    /\ view.df_table # df
    /\ view.map_zoom = ZoomWide

\* C4: a pass whose selector returns a country c, with no button pressed and
\* no zoom reset pending, ends in FILTERED(c): the session filter is c, the
\* displayed records are the placed records of c, the centre is their mean
\* and the zoom is 3.5.
C4_FilteredState ==
    (/\ Rendered
     /\ view.selector # ShowAll
     /\ view.clicked = "none"
     /\ ~view.override_at_start) =>
        /\ session.selected_country = view.selector
        /\ view.selected_country = view.selector
        /\ view.df_table = SelectSeq(df, LAMBDA r : r.Country = view.selector)
        /\ \A i \in DOMAIN view.df_table : view.df_table[i].Country = view.selector
        /\ view.map_lat * Len(view.df_table) <= Sum(Column(view.df_table, "Latitude"))
        /\ (view.map_lat + 1) * Len(view.df_table) > Sum(Column(view.df_table, "Latitude"))
        /\ view.map_lon * Len(view.df_table) <= Sum(Column(view.df_table, "Longitude"))
        /\ (view.map_lon + 1) * Len(view.df_table) > Sum(Column(view.df_table, "Longitude"))
        /\ view.map_zoom = ZoomClose

\* A country with two or more placed records was selected while another
\* country has placed records too.
C4_Witness ==
    /\ Rendered
    /\ view.selector # ShowAll
    /\ view.clicked = "none"
    /\ ~view.override_at_start
    /\ Len(view.df_table) >= 2
    /\ Len(view.df_table) < Len(df)
    /\ view.map_zoom = ZoomClose

\* C5: when a pass follows a pass with the same selector value, with no button
\* pressed and no reset pending at its start, it computes the viewport and
\* the record set of that filter without a reset (the very same ones as the
\* pass before when that one had no reset either) and leaves the session
\* state as it was.  The record set is compared with the frame df of the pass
\* before, so placed coordinates that drift between passes break it.
C5_RerenderIdempotent ==
    [][(/\ Rendered
        /\ view'.status = "ok"
        /\ view'.selector = view.selector
        /\ view'.clicked = "none"
        /\ ~view'.override_at_start) =>
           /\ session' = session
           /\ view'.selected_country = view.selector
           /\ view'.df_table = Matching(df, view.selector)
           /\ view'.map_zoom = (IF view.selector = ShowAll THEN ZoomWide ELSE ZoomClose)
           /\ (view.selected_country = view.selector) =>
                 /\ view'.df_table = view.df_table
                 /\ view'.map_lat = view.map_lat
                 /\ view'.map_lon = view.map_lon
           /\ (view.clicked = "none" /\ ~view.override_at_start) => view' = view
      ]_vars

\* A page with a country selected, and records fanned out around it, was
\* refreshed.
C5_Witness ==
    /\ Rendered
    /\ event = "refresh"
    /\ view.selector # ShowAll
    /\ ~view.override_at_start
    /\ Len(view.df_table) >= 2

-----------------------------------------------------------------------------
\* Properties of the load and jitter pipeline.

\* The countries of the explored files, as a set.
CountrySet == {Countries[i] : i \in DOMAIN Countries}

\* C6 as claimed: the N > 1 placed records of a country are its one shared
\* anchor plus the offsets jitter_amount * (sin, cos)(2*pi*i/N), i = 0..N-1:
\* taking each record's offset away again leaves the same point for all.
C6_SharedAnchorFan ==
    Rendered =>
        \A c \in CountrySet :
            LET g == Group(df, c)
                N == Len(g)
            IN  N > 1 =>
                  \A i, j \in 1..N :
                     /\ g[i].Latitude - lat_offsets(jitter_amount, N, i - 1)
                          = g[j].Latitude - lat_offsets(jitter_amount, N, j - 1)
                     /\ g[i].Longitude - lon_offsets(jitter_amount, N, i - 1)
                          = g[j].Longitude - lon_offsets(jitter_amount, N, j - 1)

\* C7 as claimed: two distinct records of one country with N > 1 records
\* never get the same placed position.
C7_CollisionFree ==
    Rendered =>
        \A c \in CountrySet :
            LET g == Group(df, c)
            IN  \A i, j \in 1..Len(g) :
                   i # j => <<g[i].Latitude, g[i].Longitude>>
                              # <<g[j].Latitude, g[j].Longitude>>

\* C8: the record of a country with exactly one loaded record is placed at
\* its input latitude and longitude.
C8_SingleRecordAtAnchor ==
    Rendered =>
        \A c \in CountrySet :
            Len(Group(df_raw, c)) = 1 =>
                \E j \in DOMAIN df :
                    /\ df[j].Name = Group(df_raw, c)[1].Name
                    /\ df[j].Country = c
                    /\ df[j].Latitude = Group(df_raw, c)[1].Latitude
                    /\ df[j].Longitude = Group(df_raw, c)[1].Longitude

\* One country has a single record while another has several.
C8_Witness ==
    /\ Rendered
    /\ \E c \in CountrySet : Len(Group(df_raw, c)) = 1
    /\ \E c \in CountrySet : Len(Group(df_raw, c)) > 1

\* C9 as claimed, for a file with at least one row: the pipeline raises no
\* error, no record without Latitude or Longitude is placed or displayed, and
\* every record with both is placed exactly once.
C9_DropPolicy ==
    (pc # "start" /\ Len(csv) > 0) =>
        /\ pc # "error"
        /\ \A i \in DOMAIN csv :
              IF csv[i].Latitude = NaN \/ csv[i].Longitude = NaN
              THEN /\ \A j \in DOMAIN df : df[j].Name # i
                   /\ \A j \in DOMAIN view.df_table : view.df_table[j].Name # i
              ELSE Cardinality({j \in DOMAIN df : df[j].Name = i}) = 1

\* C10: after every pass df_raw is the frame load_data returned (the one the
\* memo holds), each placed record lies within one jitter offset of its
\* loaded record, and a pass places the records where the pass before did.
C10_LoadedSetReadOnly ==
    /\ [](pc # "start" =>
            /\ memo = <<df_raw>>
            /\ \A j \in DOMAIN df :
                  \E i \in DOMAIN df_raw :
                     /\ df_raw[i].Name = df[j].Name
                     /\ df[j].Latitude - df_raw[i].Latitude \in
                            -(jitter_amount * 1000)..(jitter_amount * 1000)
                     /\ df[j].Longitude - df_raw[i].Longitude \in
                            -(jitter_amount * 1000)..(jitter_amount * 1000))
    /\ [][(Len(df) > 0 /\ view'.status = "ok") => df' = df]_vars

\* The pass forced by "Clear Filter" (the third of its session at least) has
\* placed a country's records around their coordinates.
C10_Witness ==
    /\ Rendered
    /\ event = "rerun"
    /\ \E c \in CountrySet : Len(Group(df, c)) > 1

-----------------------------------------------------------------------------
\* Properties of apply_jitter on its own, of the memo and of the rerun.

\* C11 as claimed: a call of apply_jitter with jitter_amount <= 0 ends in an
\* error and returns no layout.
C11_NonPositiveRadiusFails ==
    (call.status # "none" /\ call.amount <= 0) => call.status # "ok"

\* C12: the body of load_data runs at most once whatever passes, forced
\* reruns and new sessions follow, and every pass gets the frame of that one
\* run: the rows of the file that have both coordinates.
C12_LoadMemoized ==
    /\ parses <= 1
    /\ (parses = 1) <=> (Len(memo) = 1)
    /\ Len(memo) = 1 => memo[1] = dropna(csv)
    /\ event # "none" => (parses = 1 /\ df_raw = dropna(csv))

\* A forced rerun (the third pass of its session at least) ran on a loaded
\* frame with the file parsed once.
C12_Witness ==
    /\ Rendered
    /\ event = "rerun"
    /\ parses = 1
    /\ Len(df_raw) > 0

\* C13: the pass in which "Zoom to All" is pressed renders zoom 1.2 and
\* leaves the flag down; the pass right after it, with the selector still at
\* the country c and no button, renders zoom 3.5 centred on the mean of the
\* placed records of c.
C13_WideViewOnePassOnly ==
    /\ (Rendered /\ view.clicked = "zoom") =>
          (view.map_zoom = ZoomWide /\ ~session.zoom_override)
    /\ (/\ Rendered
        /\ prior.clicked = "zoom"
        /\ prior.selector # ShowAll
        /\ view.selector = prior.selector
        /\ view.clicked = "none") =>
           /\ ~view.override_at_start
           /\ view.map_zoom = ZoomClose
           /\ view.df_table = Group(df, prior.selector)
           /\ view.map_lat * Len(view.df_table) <= Sum(Column(view.df_table, "Latitude"))
           /\ (view.map_lat + 1) * Len(view.df_table) > Sum(Column(view.df_table, "Latitude"))
           /\ view.map_lon * Len(view.df_table) <= Sum(Column(view.df_table, "Longitude"))
           /\ (view.map_lon + 1) * Len(view.df_table) > Sum(Column(view.df_table, "Longitude"))

\* The pass after a "Zoom to All" pass on a country, with the selector where
\* it was and no button pressed.
C13_Witness ==
    /\ Rendered
    /\ prior.clicked = "zoom"
    /\ prior.selector # ShowAll
    /\ view.selector = prior.selector
    /\ view.clicked = "none"
    /\ view.map_zoom = ZoomClose

\* C14: rerun_trigger is False whenever a pass starts; a rerun is pending
\* only right after a "Clear Filter" pass, and every such pass leaves one
\* pending; the rerun pass asks for no further rerun and ends with
\* rerun_trigger and zoom_override False, the page waiting for the viewer.
C14_OneRerunThenQuiet ==
    /\ session.rerun_trigger = FALSE
    /\ pc = "rerun" <=> (Rendered /\ view.clicked = "clear")
    /\ view.rerun <=> pc = "rerun"
    /\ event = "rerun" =>
          /\ pc = "idle"
          /\ prior.clicked = "clear"
          /\ view.clicked = "none"
          /\ session.zoom_override = FALSE

\* The rerun a "Clear Filter" press forced has run and the page is idle.
C14_Witness ==
    /\ event = "rerun"
    /\ prior.clicked = "clear"
    /\ pc = "idle"
    /\ Rendered

\* C15: after a pass that asks for no rerun the session filter is the value
\* the selector shows and the map and table show the placed records matching
\* it; they differ only in a "Clear Filter" pass (session filter and map at
\* Show All, all records shown), and the rerun pass after it ends with
\* selector and session filter both at Show All.
C15_FilterAgreesWhenQuiet ==
    /\ (Rendered /\ ~view.rerun) =>
          /\ session.selected_country = view.selector
          /\ widget.value = view.selector
          /\ view.selected_country = view.selector
          /\ view.df_table = Matching(df, view.selector)
    /\ (Rendered /\ session.selected_country # view.selector) =>
          /\ view.clicked = "clear"
          /\ pc = "rerun"
          /\ session.selected_country = ShowAll
          /\ view.selected_country = ShowAll
          /\ view.df_table = df
    /\ (Rendered /\ event = "rerun") =>
          /\ view.selector = ShowAll
          /\ session.selected_country = ShowAll

\* The rerun after "Clear Filter" was pressed with a country in the selector.
C15_Witness ==
    /\ Rendered
    /\ event = "rerun"
    /\ prior.clicked = "clear"
    /\ prior.selector # ShowAll
    /\ view.selector = ShowAll

\* C16: whenever a pass is about to start, the session's selected_country is
\* absent (line 88 then sets Show All), Show All, or a country of the placed
\* frame, and no pass ends in the ValueError of list.index.
C16_IndexLookupDefined ==
    /\ view.status # "ValueError: not in list"
    /\ \/ "selected_country" \notin session.keys
       \/ session.selected_country = ShowAll
       \/ \E i \in DOMAIN df : df[i].Country = session.selected_country
    /\ pc \in {"idle", "rerun"} =>
          SelectIndex(df, session.selected_country) \in 0..Len(SortedCountries(df))

\* A button pass whose selectbox was built from the position of the second
\* country of the sorted list.
C16_Witness ==
    /\ Rendered
    /\ view.clicked # "none"
    /\ widget.ident = 2
    /\ view.selector = Countries[2]

====
